---- MODULE Spec2Model ----
(***************************************************************************)
(* PodpingHivewriter (src/src/podping_hivewriter/podping_hivewriter.py):   *)
(* the startup task, the ZeroMQ ingress loop, the IRI batch loop           *)
(* (Coalescer), the batch handler loop with failure_retry (Submitter) and  *)
(* send_notification (Publisher), as cooperating asyncio tasks.  One       *)
(* action is one run of a task between two points where it really          *)
(* suspends.                                                               *)
(***************************************************************************)
EXTENDS Integers, Sequences, FiniteSets, TLC

VARIABLES
    config,                   \* constructor arguments daemon, resource_test, dry_run
    provider_settings,        \* what settings_manager.get_settings() yields now
    startup_pc,               \* position of the _startup task
    probe_outcome,            \* how test_hive_resources ended ("none" before it ran)
    probe_size,               \* size of the payload the probe handed to broadcast, 0 if
                              \* none or once startup has moved on
    _startup_done,            \* self._startup_done
    tasks_started,            \* the three worker tasks were created (lines 122-124)
    exit_code,                \* "none" while the process runs, else the sys.exit code
    current_node,             \* cursor of the client's node ring, 0..NumNodes-1
    ingress_pc,               \* "recv" or "send" in _zmq_response_loop
    request,                  \* the frame the ingress is answering ("" when none)
    reply,                    \* the frame the ingress answers with
    iri_queue,                \* self.iri_queue
    total_iris_recv,          \* self.total_iris_recv
    _iris_in_flight,          \* self._iris_in_flight
    batch_pc,                 \* position of _iri_batch_loop: "settings" or "wait"
    settings,                 \* _iri_batch_loop local settings
    window_settings,          \* history: what the provider yielded when the window began
    first_get_at,             \* history: win_elapsed at the window's first dequeue
    closed_empty,             \* history: the Coalescer's last step closed an empty window
    iri_set,                  \* _iri_batch_loop local iri_set
    iris_size_without_commas, \* _iri_batch_loop local
    iris_size_total,          \* _iri_batch_loop local
    win_elapsed,              \* timer() - start, in ticks
    get_elapsed,              \* ticks the pending wait_for has been waiting
    next_batch_id,            \* the fresh uuid4 of the window, as a serial number
    iri_batch_queue,          \* self.iri_batch_queue
    total_iris_recv_deduped,  \* self.total_iris_recv_deduped
    window_log,               \* history: the IRIs dequeued in this window, in order
    handler_pc,               \* position of the Submitter / of a failure_retry call
    iri_batch,                \* the batch failure_retry is working on
    failure_count,            \* failure_retry local failure_count
    sleep_time,               \* failure_retry local sleep_time
    sleeps,                   \* history: the sleeps of this failure_retry call, in order
    handler_failure_count,    \* _iri_batch_handler_loop local failure_count
    total_iris_sent,          \* self.total_iris_sent
    attempts_done,            \* history: attempts this failure_retry call has finished
    last_outcome,             \* history: what the attempt just finished ended in
    chain_applied,            \* history: broadcasts of iri_batch that took effect
    n_direct_calls            \* number of failure_retry calls made by an API caller

vars == <<config, provider_settings, settings, window_settings, first_get_at,
          closed_empty,
          startup_pc, probe_outcome, probe_size, _startup_done, tasks_started, exit_code,
          current_node, ingress_pc, request, reply, iri_queue,
          total_iris_recv, _iris_in_flight, batch_pc, iri_set,
          iris_size_without_commas, iris_size_total, win_elapsed, get_elapsed,
          next_batch_id, iri_batch_queue, total_iris_recv_deduped, window_log,
          handler_pc, iri_batch, failure_count, sleep_time, sleeps,
          handler_failure_count,
          total_iris_sent, attempts_done, last_outcome, chain_applied,
          n_direct_calls>>

startup_vars == <<startup_pc, probe_outcome, probe_size, _startup_done,
                  tasks_started>>
ingress_vars == <<ingress_pc, request, reply, total_iris_recv>>
batch_vars == <<batch_pc, settings, window_settings, first_get_at, closed_empty,
                iri_set, iris_size_without_commas, iris_size_total,
                win_elapsed, get_elapsed, next_batch_id, total_iris_recv_deduped,
                window_log>>
handler_vars == <<handler_pc, iri_batch, failure_count, sleep_time, sleeps,
                  handler_failure_count, total_iris_sent, attempts_done,
                  last_outcome, chain_applied, n_direct_calls>>

----------------------------------------------------------------------------
(* Bounds of the model *)

MaxRequests == 3
MaxFailures == 2
MaxDirectCalls == 1
MaxBackoffFailures == 102
NumNodes == 2

----------------------------------------------------------------------------
(* Constants and settings *)

HIVE_CUSTOM_OP_DATA_MAX_LENGTH == 8192
hive_operation_period == 2
max_url_list_bytes == 25
SmallProbePayload == 200
LargeProbePayload == 9000

\* The test of line 372 left out.
ExceedsLimitNever(size) == FALSE

\* Line 372: `if size_of_json > HIVE_CUSTOM_OP_DATA_MAX_LENGTH`
ExceedsLimit(size) == size > HIVE_CUSTOM_OP_DATA_MAX_LENGTH

INVALID_POSTING_KEY == "STARTUP_FAILED_INVALID_POSTING_KEY_EXIT_CODE"
UNKNOWN == "STARTUP_FAILED_UNKNOWN_EXIT_CODE"

\* A long IRI; its text is abbreviated, its size is given by Utf8Len.
BigIRI == "https://big/"
Candidates == {"https://a/", "https://b/", BigIRI, "not a url"}

\* len(iri.encode("UTF-8"))
Utf8Len(iri) == IF iri = BigIRI THEN 9000 ELSE Len(iri)

\* rfc3987.match(iri, "IRI"): a scheme followed by ":" and no blank
Rfc3987Match(iri) == iri \in {"https://a/", "https://b/", BigIRI}

Configs ==
    { [daemon |-> TRUE,  resource_test |-> TRUE,  dry_run |-> FALSE],
      [daemon |-> TRUE,  resource_test |-> FALSE, dry_run |-> TRUE],
      [daemon |-> FALSE, resource_test |-> TRUE,  dry_run |-> FALSE] }

\* An IRIBatch is batch_id and iri_set; dequeued is history, the IRIs taken
\* from the IRI queue during the batch's window, in order, and size_total is
\* the iris_size_total logged with the batch (line 314).
NoBatch == [batch_id |-> 0, iri_set |-> {}, dequeued |-> <<>>, size_total |-> 0]
NoOutcome == [kind |-> "none", message |-> "", name |-> "", applied |-> FALSE]

\* The settings the provider can yield: the ones it starts with and the ones
\* an update of the control account brings.
DefaultSettings ==
    [hive_operation_period |-> hive_operation_period,
     max_url_list_bytes |-> max_url_list_bytes]
ChangedSettings ==
    [hive_operation_period |-> hive_operation_period + 1,
     max_url_list_bytes |-> max_url_list_bytes + 15]
SettingsSnapshots == {DefaultSettings, ChangedSettings}

Running == exit_code = "none"

Min(a, b) == IF a < b THEN a ELSE b

RECURSIVE SumUtf8(_)
SumUtf8(S) ==
    IF S = {} THEN 0
    ELSE LET x == CHOOSE y \in S : TRUE IN Utf8Len(x) + 2 + SumUtf8(S \ {x})

----------------------------------------------------------------------------
Init ==
    /\ config \in Configs
    /\ provider_settings = DefaultSettings
    /\ settings = DefaultSettings
    /\ window_settings = DefaultSettings
    /\ first_get_at = 0
    /\ closed_empty = FALSE
    /\ startup_pc = "settings"
    /\ probe_outcome = "none"
    /\ probe_size = 0
    /\ _startup_done = FALSE
    /\ tasks_started = FALSE
    /\ exit_code = "none"
    /\ current_node = 0
    /\ ingress_pc = "recv"
    /\ request = ""
    /\ reply = ""
    /\ iri_queue = <<>>
    /\ total_iris_recv = 0
    /\ _iris_in_flight = 0
    /\ batch_pc = "settings"
    /\ iri_set = {}
    /\ iris_size_without_commas = 0
    /\ iris_size_total = 0
    /\ win_elapsed = 0
    /\ get_elapsed = 0
    /\ next_batch_id = 1
    /\ iri_batch_queue = <<>>
    /\ total_iris_recv_deduped = 0
    /\ window_log = <<>>
    /\ handler_pc = "get"
    /\ iri_batch = NoBatch
    /\ failure_count = 0
    /\ sleep_time = 0
    /\ sleeps = <<>>
    /\ handler_failure_count = 0
    /\ total_iris_sent = 0
    /\ attempts_done = 0
    /\ last_outcome = NoOutcome
    /\ chain_applied = 0
    /\ n_direct_calls = 0

----------------------------------------------------------------------------
(* The startup task: _startup, test_hive_resources, automatic_node_selection *)

ProbeOutcomes == {"ok", "base58", "value_error", "exception"}

\* len(payload_json) of the startup operation (lines 156-186): a few fields
\* around server_account, which is whatever string the constructor was given.
ProbePayloadSizes == {SmallProbePayload, LargeProbePayload}

\* `if self.resource_test and not self.dry_run`
ProbeEnabled == config.resource_test /\ ~config.dry_run

\* The except clauses of test_hive_resources: the exit code a failure of the
\* probe ends in, "none" when the handler falls through and the probe returns.
\*   base58      ValueError("Error loading Base58 object")
\*   value_error any other ValueError
\*   exception   any other Exception
ProbeExit(outcome) ==
    CASE outcome = "ok" -> "none"
      [] outcome = "base58" -> INVALID_POSTING_KEY
      [] outcome = "value_error" -> "none"
      [] OTHER -> UNKNOWN

\* Lines 121-128: the worker tasks are created and the flag is set with no
\* await in between.
StartupFinish ==
    /\ tasks_started' = config.daemon
    /\ _startup_done' = TRUE
    /\ startup_pc' = "done"

\* Lines 99-115: settings and allowed accounts; an exception is logged and
\* raised again, which ends the startup task and nothing else.
StartupSettings ==
    /\ Running
    /\ startup_pc = "settings"
    /\ \E ok \in BOOLEAN :
         IF ~ok
         THEN /\ startup_pc' = "raised"
              /\ UNCHANGED <<_startup_done, tasks_started>>
         ELSE IF ProbeEnabled
              THEN /\ startup_pc' = "probe"
                   /\ UNCHANGED <<_startup_done, tasks_started>>
              ELSE StartupFinish
    /\ UNCHANGED <<config, provider_settings, probe_outcome, probe_size, exit_code, current_node,
                   iri_queue, _iris_in_flight, iri_batch_queue>>
    /\ UNCHANGED <<ingress_vars, batch_vars, handler_vars>>

\* Line 116: test_hive_resources, with every way it can end.  The payload of
\* the startup operation has one of ProbePayloadSizes; the probe gets as far
\* as the broadcast of send_notification (reached) or fails before it, and it
\* succeeds only through the broadcast.  A payload over the limit raises in
\* construct_operation (line 165), an Exception that is no ValueError.
StartupProbe ==
    /\ Running
    /\ startup_pc = "probe"
    /\ \E outcome \in ProbeOutcomes, size \in ProbePayloadSizes, reached \in BOOLEAN :
         /\ ExceedsLimit(size) => ~reached /\ outcome = "exception"
         /\ outcome = "ok" => reached
         /\ probe_size' = IF reached THEN size ELSE 0
         /\ probe_outcome' = outcome
         /\ exit_code' = ProbeExit(outcome)
         /\ startup_pc' = IF ProbeExit(outcome) = "none" THEN "node_selection"
                          ELSE "exited"
    /\ UNCHANGED <<config, provider_settings, _startup_done, tasks_started, current_node, iri_queue,
                   _iris_in_flight, iri_batch_queue>>
    /\ UNCHANGED <<ingress_vars, batch_vars, handler_vars>>

\* Lines 117-128: automatic_node_selection (the ranked ring with the cursor on
\* its first node), then the tasks and the flag.
StartupNodeSelection ==
    /\ Running
    /\ startup_pc = "node_selection"
    /\ current_node' = 0
    /\ probe_size' = 0
    /\ StartupFinish
    /\ UNCHANGED <<config, provider_settings, probe_outcome, exit_code, iri_queue,
                   _iris_in_flight, iri_batch_queue>>
    /\ UNCHANGED <<ingress_vars, batch_vars, handler_vars>>

----------------------------------------------------------------------------
(* Ingress: _zmq_response_loop *)

\* The test of line 334 left out: every frame is enqueued.
IngressAcceptsAll(iri) == TRUE

\* Line 334: the condition under which the received frame is enqueued.
IngressAccepts(iri) == Rfc3987Match(iri)

\* The increment of line 337 left out.
InFlightAfterAcceptSame(count) == count

\* Lines 336-337: `self._iris_in_flight += 1` under the lock
InFlightAfterAccept(count) == count + 1

\* Lines 333-341 up to the reply: recv_string, the test, and for an accepted
\* frame put, the increment under the (never contended) lock and the total.
\* put on an unbounded queue and acquire of a free lock do not suspend.
IngressRecv ==
    /\ Running
    /\ tasks_started
    /\ ingress_pc = "recv"
    /\ \E iri \in Candidates :
         /\ IngressAccepts(iri) => total_iris_recv < MaxRequests
         /\ request' = iri
         /\ IF IngressAccepts(iri)
            THEN /\ iri_queue' = Append(iri_queue, iri)
                 /\ _iris_in_flight' = InFlightAfterAccept(_iris_in_flight)
                 /\ total_iris_recv' = total_iris_recv + 1
                 /\ reply' = "OK"
            ELSE /\ reply' = "Invalid IRI"
                 /\ UNCHANGED <<iri_queue, _iris_in_flight, total_iris_recv>>
    /\ ingress_pc' = "send"
    /\ UNCHANGED <<config, provider_settings, exit_code, current_node, iri_batch_queue>>
    /\ UNCHANGED <<startup_vars, batch_vars, handler_vars>>

\* Lines 339/341: send_string delivers the reply.
IngressSend ==
    /\ Running
    /\ ingress_pc = "send"
    /\ ingress_pc' = "recv"
    /\ request' = ""
    /\ reply' = ""
    /\ UNCHANGED total_iris_recv
    /\ UNCHANGED <<config, provider_settings, exit_code, current_node, iri_queue, _iris_in_flight,
                   iri_batch_queue>>
    /\ UNCHANGED <<startup_vars, batch_vars, handler_vars>>

----------------------------------------------------------------------------
(* Coalescer: _iri_batch_loop *)

\* Assignment instead of add: the set holds the last IRI only.
AddToSetReplacing(S, iri) == {iri}

\* Line 281: iri_set.add(iri)
AddToSet(S, iri) == S \cup {iri}

\* Line 292: the contribution of one dequeued IRI, the IRI and its two quotes.
QuotedSize(iri) == Utf8Len(iri) + 2

\* Line 297: iris_size_total, from the running sum and the set.
SizeTotal(without_commas, S) == without_commas + Cardinality(S) - 1 + 2

\* The size test of line 274 left out of the loop condition.
WindowOpenByTime(duration, size_total) ==
    duration < settings.hive_operation_period

\* Lines 272-275: the condition of the inner while loop.
WindowOpen(duration, size_total) ==
    /\ duration < settings.hive_operation_period
    /\ size_total < settings.max_url_list_bytes

\* The test of line 308 left out.
NonEmptyUntested(S) == TRUE

\* Line 308: `if len(iri_set):`
NonEmpty(S) == Cardinality(S) # 0

\* Lines 263-268: a new window.
NewWindow ==
    /\ iri_set' = {}
    /\ iris_size_without_commas' = 0
    /\ iris_size_total' = 0
    /\ win_elapsed' = 0
    /\ get_elapsed' = 0
    /\ first_get_at' = 0
    /\ window_settings' = provider_settings

\* Lines 304-319 and back to 263: after one pass of the inner loop with the
\* locals S, without_commas and size_total (log: what the window dequeued so
\* far), either wait again or close the window: a non-empty set becomes an
\* IRIBatch on the batch queue (put on an unbounded queue does not suspend),
\* and the next window begins.  The uuid4 of a window that ends empty is never
\* seen, so the serial number advances with the batches.
LoopOrClose(S, without_commas, size_total, log) ==
    IF WindowOpen(win_elapsed, size_total)
    THEN /\ iri_set' = S
         /\ iris_size_without_commas' = without_commas
         /\ iris_size_total' = size_total
         /\ get_elapsed' = 0
         /\ window_log' = log
         /\ closed_empty' = FALSE
         /\ first_get_at' = IF window_log = <<>> /\ log # <<>> THEN win_elapsed
                             ELSE first_get_at
         /\ UNCHANGED <<win_elapsed, next_batch_id, iri_batch_queue,
                        total_iris_recv_deduped, window_settings>>
    ELSE /\ NewWindow
         /\ window_log' = <<>>
         /\ closed_empty' = (S = {})
         /\ IF NonEmpty(S)
            THEN LET b == [batch_id |-> next_batch_id, iri_set |-> S,
                           dequeued |-> log, size_total |-> size_total] IN
                 /\ iri_batch_queue' = Append(iri_batch_queue, b)
                 /\ total_iris_recv_deduped' = total_iris_recv_deduped + Cardinality(S)
                 /\ next_batch_id' = next_batch_id + 1
            ELSE UNCHANGED <<next_batch_id, iri_batch_queue,
                             total_iris_recv_deduped>>

\* Line 260 and the first pass through lines 263-275.
BatchSettings ==
    /\ Running
    /\ tasks_started
    /\ batch_pc = "settings"
    /\ batch_pc' = "wait"
    /\ settings' = provider_settings
    /\ closed_empty' = FALSE
    /\ NewWindow
    /\ UNCHANGED <<next_batch_id, total_iris_recv_deduped, window_log>>
    /\ UNCHANGED <<config, provider_settings, exit_code, current_node, iri_queue, _iris_in_flight,
                   iri_batch_queue>>
    /\ UNCHANGED <<startup_vars, ingress_vars, handler_vars>>

\* Lines 277-297: wait_for returns an IRI.
BatchGet ==
    /\ Running
    /\ batch_pc = "wait"
    /\ iri_queue # <<>>
    /\ LET iri == Head(iri_queue)
           S == AddToSet(iri_set, iri)
           without_commas == iris_size_without_commas + QuotedSize(iri)
       IN /\ iri_queue' = Tail(iri_queue)
          /\ LoopOrClose(S, without_commas, SizeTotal(without_commas, S),
                         Append(window_log, iri))
    /\ UNCHANGED <<config, provider_settings, exit_code, current_node, _iris_in_flight,
                   batch_pc, settings>>
    /\ UNCHANGED <<startup_vars, ingress_vars, handler_vars>>

\* Lines 298-299: wait_for times out after hive_operation_period.
BatchTimeout ==
    /\ Running
    /\ batch_pc = "wait"
    /\ get_elapsed = settings.hive_operation_period
    /\ LoopOrClose(iri_set, iris_size_without_commas, iris_size_total, window_log)
    /\ UNCHANGED <<config, provider_settings, exit_code, current_node, iri_queue,
                   _iris_in_flight, batch_pc, settings>>
    /\ UNCHANGED <<startup_vars, ingress_vars, handler_vars>>

\* One tick of the clock while the Coalescer waits on the empty queue.
Tick ==
    /\ Running
    /\ batch_pc = "wait"
    /\ iri_queue = <<>>
    /\ get_elapsed < settings.hive_operation_period
    /\ get_elapsed' = get_elapsed + 1
    /\ win_elapsed' = win_elapsed + 1
    /\ closed_empty' = FALSE
    /\ UNCHANGED <<batch_pc, iri_set, iris_size_without_commas, iris_size_total,
                   next_batch_id, total_iris_recv_deduped, window_log,
                   settings, window_settings, first_get_at>>
    /\ UNCHANGED <<config, provider_settings, exit_code, current_node, iri_queue, _iris_in_flight,
                   iri_batch_queue>>
    /\ UNCHANGED <<startup_vars, ingress_vars, handler_vars>>

----------------------------------------------------------------------------
(* Publisher: construct_operation, send_notification, send_notification_iris *)

\* Size of the Podping document around the "iris" array:
\* {"medium":"podcast","reason":"update","iris":  ...  }
PodpingOverhead == 46

\* Lines 370-371: len(json.dumps(payload, separators=(",", ":"))) for the
\* payload of send_notification_iris, the array being ["..","..",..].
PayloadSize(S) == PodpingOverhead + SumUtf8(S) + (Cardinality(S) - 1) + 2

\* Lines 372-373 for the payload of a batch
PayloadExceeded(S) == ExceedsLimit(PayloadSize(S))

QuotaMessage == "plugin exception:already submitted 5 custom json operation(s) this block"
NoDataName == "<no data name>"

\* What awaiting the broadcast (line 400) can end in.  kind "rpc" is an
\* RPCNodeException with raw_body["error"]["message"] = message and
\* raw_body["error"]["data"]["name"] = name (NoDataName: the body has no such
\* key); kind "exception" is any other exception.  applied tells whether the
\* operation took effect on the chain: a reply can be lost after the node
\* accepted the transaction.
OkOutcome == [kind |-> "ok", message |-> "", name |-> "", applied |-> TRUE]
DryRunOutcome == [kind |-> "ok", message |-> "", name |-> "", applied |-> FALSE]
QuotaError ==
    [kind |-> "rpc", message |-> QuotaMessage, name |-> "plugin_exception",
     applied |-> FALSE]
MissingAuthError ==
    [kind |-> "rpc", message |-> "missing required posting authority",
     name |-> "tx_missing_posting_auth", applied |-> FALSE]
OtherRpcError ==
    [kind |-> "rpc", message |-> "Unable to acquire database lock",
     name |-> "timeout_exception", applied |-> FALSE]
NoDataRpcError ==
    [kind |-> "rpc", message |-> "Internal Error", name |-> NoDataName,
     applied |-> FALSE]
OtherException == [kind |-> "exception", message |-> "", name |-> "", applied |-> FALSE]
LostReply == [kind |-> "exception", message |-> "", name |-> "", applied |-> TRUE]
PayloadExceededOutcome ==
    [kind |-> "payload_exceeded", message |-> "", name |-> "", applied |-> FALSE]

BroadcastOutcomes ==
    IF config.dry_run
    THEN {DryRunOutcome}
    ELSE {OkOutcome, QuotaError, MissingAuthError, OtherRpcError, NoDataRpcError,
          OtherException, LostReply}

\* Lines 407-409: re.match(r"plugin exception.*custom json.*", message)
MatchesQuotaPattern(message) == message = QuotaMessage

\* Lines 405-419: the exception send_notification raises for an outcome.
SendNotificationRaises(o) ==
    CASE o.kind = "ok" -> "none"
      [] o.kind = "rpc" ->
            IF MatchesQuotaPattern(o.message)
            THEN "TooManyCustomJsonsPerBlock"
            ELSE "RPCNodeException"
      [] o.kind = "payload_exceeded" -> "PodpingCustomJsonPayloadExceeded"
      [] OTHER -> "Exception"

\* lighthive_client.next_node(), n times: the cursor moves round the ring.
NextNode(node, n) == (node + n) % NumNodes

\* Line 410: the next_node() calls send_notification makes itself.
SendNotificationAdvances(o) ==
    IF o.kind = "rpc" /\ MatchesQuotaPattern(o.message) THEN 1 ELSE 0

----------------------------------------------------------------------------
(* Submitter: _iri_batch_handler_loop and failure_retry *)

\* wait_startup left out of failure_retry.
StartupWaitSkipped == TRUE

\* Lines 210-211: wait_startup returns
StartupWaitOver == _startup_done

\* Line 489: the subscript ex.raw_body["error"]["data"]["name"] succeeds
HasDataName(o) == o.name # NoDataName

\* The comparison of line 489 against a name the chain never sends.
IsMissingPostingAuthMisspelt(o) == o.name = "missing_posting_auth"

\* Line 489: the comparison
IsMissingPostingAuth(o) == o.name = "tx_missing_posting_auth"

\* Lines 475-504: how failure_retry leaves the try statement.
\*   "return"  line 485
\*   "exit"    sys.exit, line 496
\*   "raise"   the KeyError of line 489 leaves failure_retry
\*   "retry"   the handler ends and the while loop goes round
FailureRetryVerdict(o) ==
    LET exc == SendNotificationRaises(o) IN
    CASE exc = "none" -> "return"
      [] exc = "RPCNodeException" ->
            IF ~HasDataName(o) THEN "raise"
            ELSE IF IsMissingPostingAuth(o) THEN "exit"
            ELSE "retry"
      [] OTHER -> "retry"

\* Lines 237-238: `self._iris_in_flight -= len(iri_batch.iri_set)`
InFlightAfterBatch(count, S) == count - Cardinality(S)

\* Line 465 without the cap
SleepTimeUncapped(count) == count * 3

\* Line 465
SleepTime(count) == Min(count * 3, 300)

\* Line 466: `if failure_count > 0:` guards the sleep
Sleeps(count) == count > 0

\* The value of `return failure_count` with the increment of the finally
\* clause in it.
ReturnedCountIncremented(count) == count + 1

\* Line 485: `return failure_count`; the value is taken before the finally
\* clause (line 507) increments the local.
ReturnedCount(count) == count

\* The end of one attempt with outcome o: lines 452, 485-507 and, when
\* failure_retry returns or raises into the handler loop, lines 234-251.
AttemptEnd(o, count) ==
    LET verdict == FailureRetryVerdict(o)
        n == Cardinality(iri_batch.iri_set)
    IN
    /\ attempts_done' = attempts_done + 1
    /\ last_outcome' = o
    /\ current_node' = NextNode(current_node, SendNotificationAdvances(o) + 1)
    /\ total_iris_sent' = IF verdict = "return" THEN total_iris_sent + n
                          ELSE total_iris_sent
    /\ exit_code' = IF verdict = "exit" THEN INVALID_POSTING_KEY ELSE exit_code
    /\ handler_pc' = CASE verdict = "return" -> "get"
                       [] verdict = "retry" -> "sleep"
                       [] verdict = "exit" -> "exited"
                       [] OTHER -> "crashed"
    /\ failure_count' = IF verdict = "return" THEN 0 ELSE count + 1
    /\ handler_failure_count' = IF verdict = "return" THEN ReturnedCount(count)
                                ELSE handler_failure_count
    /\ IF verdict = "return" /\ config.daemon
       THEN _iris_in_flight' = InFlightAfterBatch(_iris_in_flight, iri_batch.iri_set)
       ELSE UNCHANGED _iris_in_flight
    /\ iri_batch' = IF verdict = "return" THEN NoBatch ELSE iri_batch

\* Lines 465-476 and 370-373: the sleep before a retry, then
\* send_notification_iris up to the broadcast; a payload over the limit ends
\* the attempt at once.
AttemptBegin(count) ==
    /\ sleep_time' = SleepTime(count)
    /\ sleeps' = IF Sleeps(count) THEN Append(sleeps, SleepTime(count)) ELSE sleeps
    /\ IF PayloadExceeded(iri_batch.iri_set)
       THEN /\ AttemptEnd(PayloadExceededOutcome, count)
            /\ UNCHANGED chain_applied
       ELSE /\ handler_pc' = "broadcast"
            /\ failure_count' = count
            /\ last_outcome' = NoOutcome
            /\ UNCHANGED <<iri_batch, handler_failure_count, total_iris_sent,
                           attempts_done, chain_applied,
                           exit_code, current_node, _iris_in_flight>>

\* Line 228: the handler loop takes the next batch and calls failure_retry.
HandlerGet ==
    /\ Running
    /\ tasks_started
    /\ handler_pc = "get"
    /\ iri_batch_queue # <<>>
    /\ iri_batch' = Head(iri_batch_queue)
    /\ iri_batch_queue' = Tail(iri_batch_queue)
    /\ handler_pc' = "wait_startup"
    /\ chain_applied' = 0
    /\ attempts_done' = 0
    /\ sleeps' = <<>>
    /\ last_outcome' = NoOutcome
    /\ UNCHANGED <<failure_count, sleep_time, handler_failure_count, total_iris_sent,
                   n_direct_calls>>
    /\ UNCHANGED <<config, provider_settings, exit_code, current_node, iri_queue, _iris_in_flight>>
    /\ UNCHANGED <<startup_vars, ingress_vars, batch_vars>>

\* The sets of IRIs a caller of failure_retry passes.
DirectSets == {{"https://a/"}, {"https://a/", "https://b/"}}

\* Lines 454-460: with daemon=False no task is created and the owner of the
\* object calls the public failure_retry itself, at any time after
\* construction.
DirectCall ==
    /\ Running
    /\ ~config.daemon
    /\ handler_pc = "get"
    /\ n_direct_calls < MaxDirectCalls
    /\ \E S \in DirectSets :
         iri_batch' = [batch_id |-> 0, iri_set |-> S, dequeued |-> <<>>,
                       size_total |-> 0]
    /\ n_direct_calls' = n_direct_calls + 1
    /\ handler_pc' = "wait_startup"
    /\ chain_applied' = 0
    /\ attempts_done' = 0
    /\ sleeps' = <<>>
    /\ last_outcome' = NoOutcome
    /\ UNCHANGED <<failure_count, sleep_time, handler_failure_count, total_iris_sent>>
    /\ UNCHANGED <<config, provider_settings, exit_code, current_node, iri_queue, _iris_in_flight,
                   iri_batch_queue>>
    /\ UNCHANGED <<startup_vars, ingress_vars, batch_vars>>

\* Lines 460-476: wait_startup returns, failure_count = 0, first attempt.
FirstAttempt ==
    /\ Running
    /\ handler_pc = "wait_startup"
    /\ StartupWaitOver
    /\ AttemptBegin(0)
    /\ UNCHANGED <<config, provider_settings, iri_queue, iri_batch_queue, n_direct_calls>>
    /\ UNCHANGED <<startup_vars, ingress_vars, batch_vars>>

\* Lines 465-476: the sleep is over, next attempt (of at most max retries).
RetryAttemptUpTo(max) ==
    /\ Running
    /\ handler_pc = "sleep"
    /\ failure_count <= max
    /\ AttemptBegin(failure_count)
    /\ UNCHANGED <<config, provider_settings, iri_queue, iri_batch_queue, n_direct_calls>>
    /\ UNCHANGED <<startup_vars, ingress_vars, batch_vars>>

RetryAttempt == RetryAttemptUpTo(MaxFailures)

\* Line 400 completes, with any outcome; the attempt ends (at most max
\* attempts of a call fail).
BroadcastUpTo(max) ==
    /\ Running
    /\ handler_pc = "broadcast"
    /\ \E o \in BroadcastOutcomes :
         /\ o.kind # "ok" => failure_count < max
         /\ chain_applied' = chain_applied + (IF o.applied THEN 1 ELSE 0)
         /\ AttemptEnd(o, failure_count)
    /\ UNCHANGED <<config, provider_settings, iri_queue, iri_batch_queue, n_direct_calls,
                   sleep_time, sleeps>>
    /\ UNCHANGED <<startup_vars, ingress_vars, batch_vars>>

Broadcast == BroadcastUpTo(MaxFailures)

----------------------------------------------------------------------------
Next ==
    \/ StartupSettings
    \/ StartupProbe
    \/ StartupNodeSelection
    \/ IngressRecv
    \/ IngressSend
    \/ BatchSettings
    \/ BatchGet
    \/ BatchTimeout
    \/ Tick
    \/ HandlerGet
    \/ DirectCall
    \/ FirstAttempt
    \/ RetryAttempt
    \/ Broadcast

Spec == Init /\ [][Next]_vars

\* The settings provider (settings_manager, updated from the control account
\* in the background) comes to yield other values.
SettingsChange ==
    /\ Running
    /\ \E s \in SettingsSnapshots \ {provider_settings} : provider_settings' = s
    /\ UNCHANGED <<config, exit_code, current_node, iri_queue, _iris_in_flight,
                   iri_batch_queue>>
    /\ UNCHANGED <<startup_vars, ingress_vars, batch_vars, handler_vars>>

NextSettings ==
    \/ Next
    \/ SettingsChange

\* The program under fair scheduling: the event loop runs every task that is
\* ready, and the clock advances, so no step of the startup task, of the
\* three worker tasks or of the clock stays possible for ever without being
\* taken.  Requests (IngressRecv) and calls by the owner (DirectCall) come
\* or do not.
Fairness ==
    /\ WF_vars(StartupSettings)
    /\ WF_vars(StartupProbe)
    /\ WF_vars(StartupNodeSelection)
    /\ WF_vars(IngressSend)
    /\ WF_vars(BatchSettings)
    /\ WF_vars(BatchGet)
    /\ WF_vars(BatchTimeout)
    /\ WF_vars(Tick)
    /\ WF_vars(HandlerGet)
    /\ WF_vars(FirstAttempt)
    /\ WF_vars(RetryAttempt)
    /\ WF_vars(Broadcast)

SpecLive == Init /\ [][Next]_vars /\ Fairness

\* failure_retry alone, with as many failed attempts as it takes to see the
\* whole schedule of its sleeps.  It starts in a state of Spec: the daemon is
\* up and the handler loop has taken the batch of a window in which
\* "https://a/" was dequeued.
InitBackoff ==
    /\ config = [daemon |-> TRUE, resource_test |-> TRUE, dry_run |-> FALSE]
    /\ provider_settings = DefaultSettings
    /\ settings = DefaultSettings
    /\ window_settings = DefaultSettings
    /\ first_get_at = 0
    /\ closed_empty = FALSE
    /\ startup_pc = "done"
    /\ probe_outcome = "ok"
    /\ probe_size = 0
    /\ _startup_done = TRUE
    /\ tasks_started = TRUE
    /\ exit_code = "none"
    /\ current_node = 0
    /\ ingress_pc = "recv"
    /\ request = ""
    /\ reply = ""
    /\ iri_queue = <<>>
    /\ total_iris_recv = 1
    /\ _iris_in_flight = 1
    /\ batch_pc = "wait"
    /\ iri_set = {}
    /\ iris_size_without_commas = 0
    /\ iris_size_total = 0
    /\ win_elapsed = 0
    /\ get_elapsed = 0
    /\ next_batch_id = 2
    /\ iri_batch_queue = <<>>
    /\ total_iris_recv_deduped = 1
    /\ window_log = <<>>
    /\ handler_pc = "wait_startup"
    /\ iri_batch = [batch_id |-> 1, iri_set |-> {"https://a/"},
                    dequeued |-> <<"https://a/">>,
                    size_total |-> SizeTotal(QuotedSize("https://a/"), {"https://a/"})]
    /\ failure_count = 0
    /\ sleep_time = 0
    /\ sleeps = <<>>
    /\ handler_failure_count = 0
    /\ total_iris_sent = 0
    /\ attempts_done = 0
    /\ last_outcome = NoOutcome
    /\ chain_applied = 0
    /\ n_direct_calls = 0

LongRetryAttempt == RetryAttemptUpTo(MaxBackoffFailures)
LongBroadcast == BroadcastUpTo(MaxBackoffFailures)

NextBackoff ==
    \/ FirstAttempt
    \/ LongRetryAttempt
    \/ LongBroadcast

SpecBackoff == InitBackoff /\ [][NextBackoff]_vars

\* The program with a settings provider whose values change.
SpecSettings == Init /\ [][NextSettings]_vars

TypeOK ==
    /\ config \in Configs
    /\ _startup_done \in BOOLEAN
    /\ probe_size \in {0} \cup ProbePayloadSizes
    /\ tasks_started \in BOOLEAN
    /\ exit_code \in {"none", INVALID_POSTING_KEY, UNKNOWN}
    /\ ingress_pc \in {"recv", "send"}
    /\ handler_pc \in {"get", "wait_startup", "broadcast", "sleep", "exited", "crashed"}
    /\ iri_set \subseteq Candidates
    /\ provider_settings \in SettingsSnapshots
    /\ settings \in SettingsSnapshots
    /\ window_settings \in SettingsSnapshots
    /\ win_elapsed \in 0..(2 * settings.hive_operation_period)
    /\ get_elapsed \in 0..settings.hive_operation_period
    /\ first_get_at \in 0..settings.hive_operation_period
    /\ failure_count \in 0..(MaxFailures + 1)
    /\ Len(sleeps) <= MaxFailures
    /\ current_node \in 0..(NumNodes - 1)
    /\ _iris_in_flight \in 0..MaxRequests

----------------------------------------------------------------------------
(* Properties *)

\* Nothing is queued, collected or being submitted, and the Submitter is alive.
Quiescent ==
    /\ Running
    /\ tasks_started
    /\ ingress_pc = "recv"
    /\ iri_queue = <<>>
    /\ iri_set = {}
    /\ iri_batch_queue = <<>>
    /\ handler_pc = "get"

\* C1: once the system is quiescent the in-flight counter is zero: the
\* Submitter's decrements add up to the Ingress's increments.
C1_CounterConservation == Quiescent => _iris_in_flight = 0

\* C2: every publish attempt of failure_retry advances the node cursor
\* exactly once, whatever the attempt ends in.
C2_NodeRotation ==
    [][attempts_done' = attempts_done + 1
         => current_node' = NextNode(current_node, 1)]_vars

\* C3: after an attempt for a batch ended in PodpingCustomJsonPayloadExceeded
\* no further attempt is made for that batch.
C3_PayloadTooLargeNotRetried ==
    [][last_outcome.kind = "payload_exceeded" /\ iri_batch' = iri_batch
         => attempts_done' = attempts_done]_vars

\* An attempt ends here in a failure that is neither the missing posting
\* authority nor a cancellation.
NonFatalFailureEnds ==
    /\ attempts_done' = attempts_done + 1
    /\ last_outcome'.kind # "ok"
    /\ ~(last_outcome'.kind = "rpc" /\ last_outcome'.name = "tx_missing_posting_auth")

\* C4: an attempt that fails with a non-fatal failure leaves failure_retry in
\* its loop, about to retry the same batch; the Submitter does not stop.
C4_NonFatalRetried ==
    [][NonFatalFailureEnds
         => handler_pc' = "sleep" /\ iri_batch' = iri_batch /\ exit_code' = "none"]_vars

\* A broadcast ends here with an RPC error named tx_missing_posting_auth.
MissingAuthEnds ==
    /\ attempts_done' = attempts_done + 1
    /\ last_outcome'.kind = "rpc"
    /\ last_outcome'.name = "tx_missing_posting_auth"

\* C5: a broadcast that fails with tx_missing_posting_auth ends the process
\* with the INVALID_POSTING_KEY exit code, and once the process has exited no
\* publish attempt starts or ends.
C5_MissingAuthFatal ==
    [][/\ MissingAuthEnds => exit_code' = INVALID_POSTING_KEY /\ handler_pc' = "exited"
       /\ exit_code # "none"
            => attempts_done' = attempts_done /\ handler_pc' = handler_pc]_vars

C5_Witness ==
    /\ exit_code = INVALID_POSTING_KEY
    /\ handler_pc = "exited"
    /\ last_outcome = MissingAuthError
    /\ iri_batch.iri_set # {}

\* C6: a failed startup probe exits with INVALID_POSTING_KEY for the Base58
\* error and with UNKNOWN for every other failure, and after a failed probe
\* startup is never signalled done and no worker task is started.
C6_ProbeFailuresFatal ==
    /\ probe_outcome = "base58" => exit_code = INVALID_POSTING_KEY
    /\ probe_outcome \in {"value_error", "exception"} => exit_code = UNKNOWN
    /\ probe_outcome \notin {"none", "ok"} => ~_startup_done /\ ~tasks_started

\* C7: a publish attempt of failure_retry has started only if startup was
\* signalled done.
C7_StartupGating ==
    (handler_pc = "broadcast" \/ attempts_done > 0) => _startup_done

C7_Witness ==
    /\ ~config.daemon
    /\ handler_pc = "broadcast"
    /\ probe_outcome = "ok"
    /\ _startup_done

\* The batches between the Coalescer and the end of their submission.
LiveBatches ==
    {iri_batch_queue[i] : i \in 1..Len(iri_batch_queue)}
        \cup (IF iri_batch.batch_id # 0 THEN {iri_batch} ELSE {})

SeqRange(q) == {q[k] : k \in 1..Len(q)}

\* C8: the iri_set of every batch put on the Batch Queue is exactly the set
\* of IRIs dequeued during its window, no two batches share a window, and
\* the IRIs dequeued in the open window are the ones collected so far.
C8_DedupPerWindow ==
    /\ \A b \in LiveBatches : b.iri_set = SeqRange(b.dequeued)
    /\ \A b, c \in LiveBatches : b.batch_id = c.batch_id => b = c
    /\ \A b \in LiveBatches : b.batch_id < next_batch_id
    /\ iri_set = SeqRange(window_log)

\* A batch is queued whose window dequeued the same IRI twice.
C8_Witness ==
    \E b \in LiveBatches :
        /\ Cardinality(b.iri_set) = 1
        /\ Len(b.dequeued) = 2

\* C9: at most one broadcast of a batch takes effect on the chain, and an
\* attempt is under way only if no earlier one took effect.
C9_AtMostOncePerBatch ==
    /\ chain_applied <= 1
    /\ handler_pc = "broadcast" => chain_applied = 0

\* C10: every element of the IRI Queue passed the validation, and a request
\* that fails it is answered "Invalid IRI" and leaves the IRI Queue, the
\* in-flight counter and total_iris_recv as they were.
C10_InvalidNeverEnters ==
    [][/\ \A i \in 1..Len(iri_queue') : Rfc3987Match(iri_queue'[i])
       /\ (ingress_pc = "recv" /\ ingress_pc' = "send" /\ ~Rfc3987Match(request'))
            => /\ reply' = "Invalid IRI"
               /\ UNCHANGED <<iri_queue, _iris_in_flight, total_iris_recv>>]_vars

C10_Witness ==
    /\ request = "not a url"
    /\ reply = "Invalid IRI"
    /\ ingress_pc = "send"
    /\ iri_queue # <<>>

\* C11: every operation handed to the broadcast, the startup operation and a
\* batch's operation alike, has a serialized JSON payload of at most
\* HIVE_CUSTOM_OP_DATA_MAX_LENGTH; a larger payload ends the attempt in
\* PodpingCustomJsonPayloadExceeded with no broadcast of it.
C11_SizeBound ==
    /\ probe_size <= HIVE_CUSTOM_OP_DATA_MAX_LENGTH
    /\ handler_pc = "broadcast"
         => PayloadSize(iri_batch.iri_set) <= HIVE_CUSTOM_OP_DATA_MAX_LENGTH
    /\ (iri_batch.iri_set # {}
          /\ PayloadSize(iri_batch.iri_set) > HIVE_CUSTOM_OP_DATA_MAX_LENGTH)
         => /\ handler_pc # "broadcast"
            /\ chain_applied = 0
            /\ attempts_done > 0 => last_outcome = PayloadExceededOutcome

\* A batch over the limit was refused after the probe's operation and before
\* it another batch's operation went through the broadcast.
C11_Witness ==
    /\ probe_outcome = "ok"
    /\ BigIRI \in iri_batch.iri_set
    /\ last_outcome = PayloadExceededOutcome
    /\ total_iris_sent > 0

\* The handler loop's batch is retired here by a successful publish.
RetiredBySuccess ==
    /\ config.daemon
    /\ attempts_done' = attempts_done + 1
    /\ last_outcome'.kind = "ok"

\* The handler loop's batch is retired here by the fatal failure.
RetiredByFatalFailure ==
    /\ config.daemon
    /\ attempts_done' = attempts_done + 1
    /\ handler_pc' = "exited"

\* C12: the step that retires a batch, by a successful publish or
\* by the fatal failure, takes |iri_set| off the in-flight counter, and no
\* other step takes anything off it.
C12_DecrementPerRetiredBatch ==
    [][/\ (RetiredBySuccess \/ RetiredByFatalFailure)
            => _iris_in_flight' = _iris_in_flight - Cardinality(iri_batch.iri_set)
       /\ _iris_in_flight' < _iris_in_flight
            => RetiredBySuccess \/ RetiredByFatalFailure]_vars

\* C13: the in-flight counter is never negative, whatever the order in which
\* Ingress, Coalescer and Submitter run between their suspension points.
C13_InFlightNeverNegative == _iris_in_flight >= 0

\* A batch was published and taken off the counter while Ingress, having
\* just enqueued and counted a further IRI, has not sent its reply yet.
C13_Witness ==
    /\ config.daemon
    /\ total_iris_sent > 0
    /\ ingress_pc = "send"
    /\ reply = "OK"
    /\ iri_queue # <<>>
    /\ _iris_in_flight = 1

\* C14: a window that has dequeued an IRI is open no longer than
\* hive_operation_period ticks, plus one tick of slack, after its first
\* dequeue: by then it has closed, by time or by size.
C14_WindowClosure ==
    window_log # <<>>
        => win_elapsed - first_get_at <= settings.hive_operation_period + 1

\* C15: the window the Coalescer is collecting uses the settings the provider
\* yielded when that window began.
C15_SettingsPerWindow == batch_pc = "wait" => settings = window_settings

\* The sleep that comes before the k-th retry.
ScheduledSleep(k) == IF 3 * k <= 300 THEN 3 * k ELSE 300

\* C16: failure_retry does not sleep before its first attempt; before its
\* k-th retry it sleeps min(3 * k, 300) seconds and nothing else, so the
\* sleeps of a call are 3, 6, 9, ..., never decreasing, never above 300.
C16_BackoffSchedule ==
    /\ handler_pc = "broadcast" => Len(sleeps) = attempts_done
    /\ (handler_pc # "broadcast" /\ attempts_done > 0)
         => Len(sleeps) = attempts_done - 1
    /\ \A k \in 1..Len(sleeps) : sleeps[k] = ScheduledSleep(k)
    /\ \A k \in 1..(Len(sleeps) - 1) : sleeps[k] <= sleeps[k + 1]

\* The 101st retry is under way, after sleeps that reached the cap.
C16_Witness ==
    /\ handler_pc = "broadcast"
    /\ attempts_done = 101
    /\ sleeps[1] = 3
    /\ sleeps[99] = 297
    /\ sleeps[100] = 300
    /\ sleeps[101] = 300

\* C17: what failure_retry returns is the number of attempts of that call
\* that failed before the successful one, 0 when the first succeeds, and while
\* a call is attempting its count is the number of its own failed attempts:
\* every call starts from 0.
C17_ReturnedFailureCount ==
    /\ (handler_pc = "get" /\ last_outcome.kind = "ok")
         => handler_failure_count = attempts_done - 1
    /\ handler_pc = "broadcast" => failure_count = attempts_done

\* The first attempt for a batch is under way, counting from 0, after the
\* call for the batch before it returned 2.
C17_Witness ==
    /\ handler_pc = "broadcast"
    /\ attempts_done = 0
    /\ failure_count = 0
    /\ handler_failure_count = 2
    /\ total_iris_sent > 0

\* The Coalescer's wait_for times out here on a window that dequeued nothing.
EmptyWindowTimesOut ==
    /\ batch_pc = "wait"
    /\ iri_set = {}
    /\ get_elapsed = settings.hive_operation_period
    /\ get_elapsed' = 0
    /\ iri_queue' = iri_queue

\* C18: no batch on the Batch Queue has an empty iri_set, and a window that
\* closes by timeout with no IRI leaves the Batch Queue and
\* total_iris_recv_deduped as they were.
C18_NoEmptyBatch ==
    [][/\ \A i \in 1..Len(iri_batch_queue') : iri_batch_queue'[i].iri_set # {}
       /\ EmptyWindowTimesOut
            => UNCHANGED <<iri_batch_queue, total_iris_recv_deduped>>]_vars

\* An empty window has just closed while a batch of an earlier window is
\* still on the Batch Queue.
C18_Witness ==
    /\ closed_empty
    /\ iri_batch_queue # <<>>
    /\ total_iris_recv_deduped > 0

RECURSIVE LogSize(_)
LogSize(log) == IF log = <<>> THEN 0 ELSE QuotedSize(Head(log)) + LogSize(Tail(log))

\* iris_size_total after the IRIs of log were dequeued into a fresh window.
ProjectedSize(log) ==
    IF log = <<>> THEN 0 ELSE SizeTotal(LogSize(log), SeqRange(log))

\* C19: every IRI of a window was dequeued while the projected size of what
\* the window had dequeued before it was strictly below max_url_list_bytes,
\* so only the last IRI of a window can bring the size to the budget; that
\* IRI is in the batch; and a window waiting for a further IRI is below the
\* budget.
C19_SizeTriggerAfterInclusion ==
    /\ \A b \in LiveBatches :
         /\ \A k \in 0..(Len(b.dequeued) - 1) :
              ProjectedSize(SubSeq(b.dequeued, 1, k)) < settings.max_url_list_bytes
         /\ SeqRange(b.dequeued) \subseteq b.iri_set
         /\ b.size_total = ProjectedSize(b.dequeued)
    /\ batch_pc = "wait"
         => /\ iris_size_total < settings.max_url_list_bytes
            /\ iris_size_total = ProjectedSize(window_log)

\* A batch whose second IRI brought the projected size to the budget.
C19_Witness ==
    \E b \in LiveBatches :
        /\ Len(b.dequeued) = 2
        /\ Cardinality(b.iri_set) = 2
        /\ b.size_total >= settings.max_url_list_bytes
        /\ ProjectedSize(SubSeq(b.dequeued, 1, 1)) < settings.max_url_list_bytes

\* The size of the JSON array of the IRIs of S: each IRI in its quotes, the
\* commas between them and the two brackets.
ArraySize(S) == SumUtf8(S) + (Cardinality(S) - 1) + 2

\* C20: after every dequeue iris_size_total, the size logged with the batch
\* included, is the sum over the IRIs in iri_set of (UTF-8 length + 2), plus
\* |iri_set| - 1, plus 2.
C20_ProjectedSizeFormula ==
    /\ (batch_pc = "wait" /\ iri_set # {}) => iris_size_total = ArraySize(iri_set)
    /\ \A b \in LiveBatches : b.size_total = ArraySize(b.iri_set)

\* The IRI is on its way: on the IRI Queue, in the open window, or in a batch
\* that is queued or with the Submitter.  An IRI leaves the way only in the
\* step that publishes its batch and retires it (OffTheWayOnlyPublished).
OnTheWay(iri) ==
    \/ iri \in SeqRange(iri_queue)
    \/ iri \in iri_set
    \/ \E b \in LiveBatches : iri \in b.iri_set

\* When the last copy of an IRI leaves the way, the step is the successful
\* publish of the Submitter's batch: the batch is counted in total_iris_sent
\* and retired.
OffTheWayOnlyPublished ==
    [][\A iri \in Candidates :
         (OnTheWay(iri) /\ ~OnTheWay(iri)')
            => /\ iri \in iri_batch.iri_set
               /\ last_outcome'.kind = "ok"
               /\ total_iris_sent' = total_iris_sent + Cardinality(iri_batch.iri_set)
               /\ iri_batch' = NoBatch]_vars

\* The call for the batch has returned from a successful publish.
BatchPublished == handler_pc = "get" /\ last_outcome.kind = "ok"

====
